---- MODULE Spec2Model ----
(***************************************************************************)
(* Event-dispatch core of tiger_agent (src/tiger_agent/harness.py): the    *)
(* durable work queue agent.event / agent.event_hist, the ingress          *)
(* callback _on_event, and the pool of workers running                     *)
(* _worker -> worker_run -> _process_events -> _claim_event ->             *)
(* _process_event -> _delete_event, followed by _delete_expired_events.    *)
(*                                                                         *)
(* Time is a discrete clock counted in minutes (the unit of the lease and  *)
(* of max_age).  The stored procedures agent.insert_event,                 *)
(* agent.claim_event, agent.delete_event and agent.delete_expired_events   *)
(* belong to the SQL migrations; they are modelled from section 4.1 of the *)
(* design specification, and the row selection and update of the claim     *)
(* also from the equivalent statement in tiger_agent/utils/db.py.          *)
(* A claim transaction keeps its row locked, and its update invisible to   *)
(* other transactions, until it commits.                                   *)
(***************************************************************************)
EXTENDS Integers, Sequences, FiniteSets, TLC

\* ---- bounds of the model ----
NumWorkers == 2
MaxEvents == 2
MaxInsertTime == 0
\* confirm actions taken per history row
MaxConfirms == 2

\* ---- arguments of EventHarness.__init__ ----
\* max_attempts has its default; the lease and max_age are scaled down to a
\* clock of a few minutes
max_attempts == 3
invisibility_minutes == 1
max_age_minutes == 2
\* worker_sleep_seconds + jitter, in minutes of the clock
worker_sleep_minutes == 1

\* variant of BatchSize: the loop runs once more
BatchSizeOneMore == 20 + 1

\* for _ in range(20) in _process_events
BatchSize == 20

\* the clock runs long enough for the last inserted row to exceed max_age and
\* for a waiting worker to time out after that
MaxTime == MaxInsertTime + max_age_minutes + 1 + worker_sleep_minutes

Workers == 0 .. (NumWorkers - 1)
Ids == 1 .. MaxEvents
NoRow == 0
NoText == "none"
Texts == {"hi", NoText}

VARIABLES
    now,          \* wall clock, minutes
    nextId,       \* next value of the id sequence of agent.event
    event,        \* live table agent.event: id -> row
    event_hist,   \* history table agent.event_hist: set of rows
    lock,         \* row locked by each worker's open claim transaction
    trigger,      \* number of items in the asyncio.Queue self._trigger
    ingress,      \* position of the in-flight _on_event call
    pc,           \* position of each worker in _worker
    cur,          \* the row / Event a worker got from claim_event
    iter,         \* iteration of the loop of _process_events
    waited,       \* minutes a worker has spent in its wait_for
    claims,       \* history: number of rows returned by claim_event per id
    invocations,  \* history: number of handler invocations per id
    returned,     \* history: ids for which a handler invocation returned
    payloads,     \* history: payload given to insert_event per id
    unserved,     \* history: ids inserted since the latest call of
                  \* claim_event by _process_events, each with whether a
                  \* worker was in its wait_for when the id was inserted
    delivery,     \* the upstream delivery the latest callback was called with
    log,          \* history: what that callback has done so far, in order
    prompts,      \* ephemeral prompts posted: the values of their two buttons
    fetched,      \* what get_event_hist returned to handle_proactive_prompt
    config,       \* the arguments of EventHarness.__init__, in seconds
    outcome,      \* what __init__, _calc_worker_sleep and _worker_args gave
    is_shutdown,  \* self._trigger has been shut down
    admin_users,  \* table agent.admin_users: the user ids
    ignored_users \* table agent.ignored_users: the user ids

vars == <<now, nextId, event, event_hist, lock, trigger, ingress,
          pc, cur, iter, waited, claims, invocations, returned, payloads,
          unserved, delivery, log, prompts, fetched, config, outcome,
          is_shutdown, admin_users, ignored_users>>

queue == <<event, event_hist>>
ghost == <<claims, invocations, returned, payloads, unserved>>
workerv == <<pc, cur, iter, waited>>
inbound == <<ingress, delivery, log, prompts, fetched>>
users == <<admin_users, ignored_users>>
startup == <<config, outcome, is_shutdown, users>>

NoEvent == [id |-> NoRow]

\* the rows of agent.admin_users when the harness starts
InitialAdmins == {"UADMIN"}

Locked(id) == \E w \in Workers : lock[w] = id
LockedByOther(w, id) == \E v \in Workers \ {w} : lock[v] = id

\* ---- payloads and rows ----

\* a Slack payload: its ts (here already in minutes) and its text; a payload
\* without text does not validate as AppMentionEvent | MessageEvent
Payload(ts, text) == [ts |-> ts, text |-> text]

\* variant of ValidEvent: every row validates
ValidEventAlways(row) == TRUE

\* pydantic validation Event(**row) in _claim_event
ValidEvent(row) == row.event.text # NoText

HistRow(row, processed) ==
    [id |-> row.id, event_ts |-> row.event_ts, attempts |-> row.attempts,
     vt |-> row.vt, claimed |-> row.claimed, event |-> row.event,
     processed |-> processed]

Without(tbl, ids) == [i \in (DOMAIN tbl) \ ids |-> tbl[i]]

HistIds == {h.id : h \in event_hist}

\* ---- Queue Store ----

\* agent.insert_event(payload): a fresh live row
insert_event(p) ==
    /\ event' = (nextId :> [id |-> nextId, event_ts |-> p.ts, attempts |-> 0,
                            vt |-> now, claimed |-> <<>>, event |-> p]) @@ event
    /\ nextId' = nextId + 1
    /\ payloads' = [payloads EXCEPT ![nextId] = p]

\* variant of Eligible: a row is visible only after its vt
EligibleAfterVt(row, maxAttempts) ==
    row.vt < now /\ row.attempts < maxAttempts

\* variant of Eligible: the visibility test is missing
EligibleAnyVt(row, maxAttempts) == row.attempts < maxAttempts

\* where m.vt <= clock_timestamp() and m.attempts < max_attempts
Eligible(row, maxAttempts) == row.vt <= now /\ row.attempts < maxAttempts

\* variant of SkipLocked: locked rows are not passed over
NoSkipLocked(w, ids) == ids

\* for update skip locked: rows locked by another transaction are passed over
SkipLocked(w, ids) == {id \in ids : ~LockedByOther(w, id)}

\* variant of ClaimUpdate: the attempt is not counted
ClaimUpdateNoCount(row, lease) == [row EXCEPT !.vt = now + lease]

\* update ... set vt = clock_timestamp() + lease, attempts = attempts + 1
ClaimUpdate(row, lease) ==
    [row EXCEPT !.vt = now + lease, !.attempts = @ + 1]

\* agent.claim_event(max_attempts, lease): the rows the call may select
claim_event(w, maxAttempts) ==
    SkipLocked(w, {id \in DOMAIN event : Eligible(event[id], maxAttempts)})

\* agent.claim_event(max_attempts, lease): the row it returns, with the
\* claim time appended to claimed
claim_event_row(row, lease) ==
    [ClaimUpdate(row, lease) EXCEPT !.claimed = Append(@, now)]

\* variant of delete_event: the history row is written, the live row is kept
delete_event_keep(tbl, id, processed) ==
    /\ event' = tbl
    /\ event_hist' = IF id \in DOMAIN tbl
                     THEN event_hist \cup {HistRow(tbl[id], processed)}
                     ELSE event_hist

\* agent.delete_event(id, processed): move the row to history, if it is live
delete_event(tbl, id, processed) ==
    IF id \in DOMAIN tbl
    THEN /\ event' = Without(tbl, {id})
         /\ event_hist' = event_hist \cup {HistRow(tbl[id], processed)}
    ELSE /\ event' = tbl
         /\ event_hist' = event_hist

Expired(row, maxAttempts, maxAge) ==
    \/ row.attempts >= maxAttempts
    \/ row.event_ts < now - maxAge

\* agent.delete_expired_events(max_attempts, max_age): move every expired row
delete_expired_events(maxAttempts, maxAge) ==
    LET gone == {id \in DOMAIN event :
                    Expired(event[id], maxAttempts, maxAge)}
    IN  /\ event' = Without(event, gone)
        /\ event_hist' = event_hist \cup
                            {HistRow(event[id], FALSE) : id \in gone}

\* ---- ingress: EventHarness._on_event ----

\* an app_mention delivery
Mention(text) == [kind |-> "app_mention", text |-> text]

NoDelivery == [kind |-> "none"]

\* await self._insert_event(event), for a delivery no later than last; the
\* callback is entered by an app_mention delivery, or called by on_message
OnEventInsertBy(last) ==
    /\ ingress \in {"idle", "im"}
    /\ nextId <= MaxEvents
    /\ now <= last
    /\ \E text \in Texts :
          /\ insert_event(Payload(now, text))
          /\ IF ingress = "idle"
             THEN delivery' = Mention(text) /\ log' = <<"insert">>
             ELSE /\ text = delivery.text
                  /\ delivery' = delivery
                  /\ log' = Append(log, "insert")
    /\ unserved' = (nextId :> (\E w \in Workers : pc[w] = "wait")) @@ unserved
    /\ ingress' = "inserted"
    /\ UNCHANGED <<startup, now, event_hist, lock, trigger, workerv,
                   claims, invocations, returned, prompts, fetched>>

OnEventInsert == OnEventInsertBy(MaxInsertTime)

\* await self._insert_event(event) raises a database exception, which
\* _on_event does not catch
OnEventInsertRaise ==
    /\ ingress \in {"idle", "im"}
    /\ IF ingress = "idle"
       THEN \E text \in Texts :
               delivery' = Mention(text) /\ log' = <<"raise">>
       ELSE delivery' = delivery /\ log' = Append(log, "raise")
    /\ ingress' = "idle"
    /\ UNCHANGED <<startup, now, nextId, queue, lock, trigger, workerv, ghost,
                   prompts, fetched>>

\* await ack()
OnEventAck ==
    /\ ingress = "inserted"
    /\ ingress' = "acked"
    /\ log' = Append(log, "ack")
    /\ UNCHANGED <<startup, now, nextId, queue, lock, trigger, workerv, ghost,
                   delivery, prompts, fetched>>

\* await ack() raises: _on_event ends without sending the trigger
OnEventAckRaise ==
    /\ ingress = "inserted"
    /\ ingress' = "idle"
    /\ log' = Append(log, "ack_raise")
    /\ UNCHANGED <<startup, now, nextId, queue, lock, trigger, workerv, ghost,
                   delivery, prompts, fetched>>

\* variant of OnEventTrigger: two items are put on the queue
OnEventTriggerTwice ==
    /\ ingress = "acked"
    /\ ~is_shutdown
    /\ trigger' = trigger + 2
    /\ ingress' = "idle"
    /\ log' = log \o <<"trigger", "trigger">>
    /\ UNCHANGED <<startup, now, nextId, queue, lock, workerv, ghost,
                   delivery, prompts, fetched>>

\* variant of OnEventTrigger: the queue has maxsize 1, put waits while it
\* is full
OnEventTriggerBounded ==
    /\ ingress = "acked"
    /\ ~is_shutdown
    /\ trigger < 1
    /\ trigger' = trigger + 1
    /\ ingress' = "idle"
    /\ log' = Append(log, "trigger")
    /\ UNCHANGED <<startup, now, nextId, queue, lock, workerv, ghost,
                   delivery, prompts, fetched>>

\* await self._trigger.put(True): the queue is unbounded, put never waits
OnEventTrigger ==
    /\ ingress = "acked"
    /\ ~is_shutdown
    /\ trigger' = trigger + 1
    /\ ingress' = "idle"
    /\ log' = Append(log, "trigger")
    /\ UNCHANGED <<startup, now, nextId, queue, lock, workerv, ghost,
                   delivery, prompts, fetched>>

\* ---- construction: EventHarness.__init__ ----

\* bounds on the arguments of __init__ and on PG_MAX_POOL_SIZE
MaxSleepSeconds == 3
MaxJitterSeconds == 2
MaxNumWorkers == 3
MaxPoolSize == 4

Configs ==
    [worker_sleep_seconds : 0 .. MaxSleepSeconds,
     worker_min_jitter_seconds : (0 - MaxJitterSeconds) .. MaxJitterSeconds,
     worker_max_jitter_seconds : (0 - MaxJitterSeconds) .. MaxJitterSeconds,
     num_workers : 1 .. MaxNumWorkers,
     pg_max_pool_size : 1 .. MaxPoolSize]

\* the configuration of the pool of this model: the clock counts minutes,
\* the jitter and PG_MAX_POOL_SIZE have their defaults
ModelConfig ==
    [worker_sleep_seconds |-> 60 * worker_sleep_minutes,
     worker_min_jitter_seconds |-> 0 - 15,
     worker_max_jitter_seconds |-> 15,
     num_workers |-> NumWorkers,
     pg_max_pool_size |-> 10]

\* AsyncConnectionPool(min_size=min_size, max_size=max_size, open=False):
\* psycopg_pool raises ValueError when max_size is below min_size
create_default_pool(min_size, max_size) ==
    [min_size |-> min_size, max_size |-> max_size,
     raised |-> max_size < min_size]

NoPool == [min_size |-> 0, max_size |-> 0, raised |-> FALSE]

\* the three asserts on the timing arguments
AssertsHold(c) ==
    /\ c.worker_sleep_seconds > 0
    /\ c.worker_sleep_seconds - c.worker_min_jitter_seconds > 0
    /\ c.worker_max_jitter_seconds > c.worker_min_jitter_seconds

\* what __init__ does with no pool argument: the default pool is created
\* first, then the asserts run
Constructed(c) ==
    LET pool == create_default_pool(c.num_workers + 1, c.pg_max_pool_size)
    IN  [init |-> IF pool.raised THEN "ValueError"
                  ELSE IF ~AssertsHold(c) THEN "AssertionError"
                  ELSE "ok",
         pool |-> pool,
         timeout |-> <<>>,
         initial_sleeps |-> <<>>,
         sample_raised |-> FALSE,
         clock |-> 0,
         started |-> {},
         first_claim |-> <<>>]

NotConstructed ==
    [init |-> "none", pool |-> NoPool, timeout |-> <<>>,
     initial_sleeps |-> <<>>, sample_raised |-> FALSE, clock |-> 0,
     started |-> {}, first_claim |-> <<>>]

\* ---- workers: EventHarness._worker ----

\* await asyncio.sleep(initial_sleep_seconds) has elapsed
InitialSleep(w) ==
    /\ pc[w] = "sleep"
    /\ pc' = [pc EXCEPT ![w] = "wait"]
    /\ UNCHANGED <<startup, now, nextId, queue, lock, trigger, inbound, cur, iter,
                   waited, ghost>>

\* variant of WorkerTriggered: the item is read but left on the queue
WorkerTriggeredPeek(w) ==
    /\ pc[w] = "wait"
    /\ trigger > 0
    /\ pc' = [pc EXCEPT ![w] = "claim"]
    /\ waited' = [waited EXCEPT ![w] = 0]
    /\ UNCHANGED <<startup, now, nextId, queue, lock, trigger, inbound, cur,
                   iter, ghost>>

\* wait_for(self._trigger.get(), ...) returns an item: worker_run("triggered")
WorkerTriggered(w) ==
    /\ pc[w] = "wait"
    /\ trigger > 0
    /\ trigger' = trigger - 1
    /\ pc' = [pc EXCEPT ![w] = "claim"]
    /\ waited' = [waited EXCEPT ![w] = 0]
    /\ UNCHANGED <<startup, now, nextId, queue, lock, inbound, cur, iter, ghost>>

\* wait_for raises TimeoutError: worker_run("timeout")
WorkerTimeout(w) ==
    /\ pc[w] = "wait"
    /\ trigger = 0
    /\ waited[w] >= worker_sleep_minutes
    /\ pc' = [pc EXCEPT ![w] = "claim"]
    /\ waited' = [waited EXCEPT ![w] = 0]
    /\ UNCHANGED <<startup, now, nextId, queue, lock, trigger, inbound, cur, iter,
                   ghost>>

\* variant of ClaimArgs: max_age_minutes is passed as the lease
ClaimArgsMaxAge == <<max_attempts, max_age_minutes>>

\* the parameters _claim_event passes to agent.claim_event
ClaimArgs == <<max_attempts, invisibility_minutes>>

\* variant of SweepArgs: the maximum age is taken sixty times too long
SweepArgsAgeTooLong == <<max_attempts, 60 * max_age_minutes>>

\* variant of SweepArgs: the lease is passed as the maximum age
SweepArgsLease == <<max_attempts, invisibility_minutes>>

\* variant of SweepArgs: one attempt too many is allowed
SweepArgsOneMore == <<max_attempts + 1, max_age_minutes>>

\* the parameters _delete_expired_events passes to agent.delete_expired_events
SweepArgs == <<max_attempts, max_age_minutes>>

\* _claim_event, first half: agent.claim_event runs inside the transaction;
\* the updated row is locked and not visible to others before the commit
ClaimExecute(w) ==
    /\ pc[w] = "claim"
    /\ LET rows == claim_event(w, ClaimArgs[1])
       IN  IF rows = {}
           THEN \* no row: _claim_event returns None, _process_events returns
                /\ pc' = [pc EXCEPT ![w] = "sweep"]
                /\ iter' = [iter EXCEPT ![w] = 0]
                /\ UNCHANGED <<lock, cur, claims>>
           ELSE \E id \in rows :
                /\ cur' = [cur EXCEPT
                              ![w] = claim_event_row(event[id], ClaimArgs[2])]
                /\ lock' = [lock EXCEPT ![w] = id]
                /\ claims' = [claims EXCEPT ![id] = @ + 1]
                /\ pc' = [pc EXCEPT ![w] = "claimed"]
                /\ UNCHANGED iter
    /\ unserved' = <<>>
    /\ UNCHANGED <<startup, now, nextId, queue, trigger, inbound, waited,
                   invocations, returned, payloads>>

\* _claim_event, second half: validate the row, discard a poison row, commit
ClaimReturn(w) ==
    /\ pc[w] = "claimed"
    /\ LET row == cur[w]
           updated == [event EXCEPT ![row.id] = row]
       IN  IF ValidEvent(row)
           THEN \* return Event(**row); _process_event calls the processor
                /\ event' = updated
                /\ pc' = [pc EXCEPT ![w] = "handler"]
                /\ invocations' = [invocations EXCEPT ![row.id] = @ + 1]
                /\ UNCHANGED <<event_hist, cur, iter>>
           ELSE \* ValidationError: delete_event(id, false), return None
                /\ delete_event(updated, row.id, FALSE)
                /\ pc' = [pc EXCEPT ![w] = "sweep"]
                /\ cur' = [cur EXCEPT ![w] = NoEvent]
                /\ iter' = [iter EXCEPT ![w] = 0]
                /\ UNCHANGED invocations
    /\ lock' = [lock EXCEPT ![w] = NoRow]
    /\ UNCHANGED <<startup, now, nextId, trigger, inbound, waited, claims, returned,
                   payloads, unserved>>

\* _process_event: the event processor returns normally
HandlerReturn(w) ==
    /\ pc[w] = "handler"
    /\ returned' = returned \cup {cur[w].id}
    /\ pc' = [pc EXCEPT ![w] = "delete"]
    /\ UNCHANGED <<startup, now, nextId, queue, lock, trigger, inbound, cur, iter,
                   waited, claims, invocations, payloads, unserved>>

\* _process_event: the event processor raises; logged, returns False, and
\* _process_events returns
HandlerRaise(w) ==
    /\ pc[w] = "handler"
    /\ pc' = [pc EXCEPT ![w] = "sweep"]
    /\ cur' = [cur EXCEPT ![w] = NoEvent]
    /\ iter' = [iter EXCEPT ![w] = 0]
    /\ UNCHANGED <<startup, now, nextId, queue, lock, trigger, inbound, waited,
                   ghost>>

\* variant of DeleteEventArgs: the row is archived as not processed
DeleteEventArgsFalse(ev) == <<ev.id, FALSE>>

\* the parameters _delete_event passes to agent.delete_event; _processed
\* keeps its default
DeleteEventArgs(ev) == <<ev.id, TRUE>>

\* variant of DeleteExpired: the cycle ends without the sweep
DeleteExpiredSkipped(w) ==
    /\ pc[w] = "sweep"
    /\ pc' = [pc EXCEPT ![w] = "wait"]
    /\ UNCHANGED <<startup, now, nextId, queue, lock, trigger, inbound, cur, iter,
                   waited, ghost>>

\* _delete_event(event) after the handler returned, then the next iteration
\* of the loop of _process_events
DeleteEvent(w) ==
    /\ pc[w] = "delete"
    /\ ~LockedByOther(w, cur[w].id)
    /\ delete_event(event, DeleteEventArgs(cur[w])[1],
                    DeleteEventArgs(cur[w])[2])
    /\ cur' = [cur EXCEPT ![w] = NoEvent]
    /\ IF iter[w] + 1 < BatchSize
       THEN /\ iter' = [iter EXCEPT ![w] = @ + 1]
            /\ pc' = [pc EXCEPT ![w] = "claim"]
       ELSE /\ iter' = [iter EXCEPT ![w] = 0]
            /\ pc' = [pc EXCEPT ![w] = "sweep"]
    /\ UNCHANGED <<startup, now, nextId, lock, trigger, inbound, waited, ghost>>

\* _delete_expired_events, then back to the wait of the worker loop; the
\* statement waits for the commit of a locked row it has to delete
DeleteExpired(w) ==
    /\ pc[w] = "sweep"
    /\ \A id \in DOMAIN event :
          Locked(id) => ~Expired(event[id], SweepArgs[1], SweepArgs[2])
    /\ delete_expired_events(SweepArgs[1], SweepArgs[2])
    /\ pc' = [pc EXCEPT ![w] = "wait"]
    /\ UNCHANGED <<startup, now, nextId, lock, trigger, inbound, cur, iter, waited,
                   ghost>>

\* the clock advances by one minute; the database calls of a worker cycle and
\* the ingress callback take less than a minute, so time passes only while
\* workers sleep, wait or run the handler
Tick ==
    /\ now < MaxTime
    /\ ingress = "idle"
    /\ \A w \in Workers : pc[w] \in {"sleep", "wait", "handler"}
    /\ now' = now + 1
    /\ waited' = [w \in Workers |->
                    IF pc[w] = "wait" /\ waited[w] < worker_sleep_minutes
                    THEN waited[w] + 1 ELSE waited[w]]
    /\ UNCHANGED <<startup, nextId, queue, lock, trigger, inbound, pc, cur, iter,
                   ghost>>

Init ==
    /\ now = 0
    /\ nextId = 1
    /\ event = <<>>
    /\ event_hist = {}
    /\ lock = [w \in Workers |-> NoRow]
    /\ trigger = 0
    /\ ingress = "idle"
    /\ pc = [w \in Workers |-> IF w = 0 THEN "wait" ELSE "sleep"]
    /\ cur = [w \in Workers |-> NoEvent]
    /\ iter = [w \in Workers |-> 0]
    /\ waited = [w \in Workers |-> 0]
    /\ claims = [i \in Ids |-> 0]
    /\ invocations = [i \in Ids |-> 0]
    /\ returned = {}
    /\ payloads = [i \in Ids |-> Payload(0, NoText)]
    /\ unserved = <<>>
    /\ delivery = NoDelivery
    /\ log = <<>>
    /\ prompts = {}
    /\ fetched = NoEvent
    /\ config = ModelConfig
    /\ outcome = Constructed(ModelConfig)
    /\ is_shutdown = FALSE
    /\ admin_users = InitialAdmins
    /\ ignored_users = {}

Next ==
    \/ OnEventInsert
    \/ OnEventAck
    \/ OnEventTrigger
    \/ Tick
    \/ \E w \in Workers : InitialSleep(w)
    \/ \E w \in Workers : WorkerTriggered(w)
    \/ \E w \in Workers : WorkerTimeout(w)
    \/ \E w \in Workers : ClaimExecute(w)
    \/ \E w \in Workers : ClaimReturn(w)
    \/ \E w \in Workers : HandlerReturn(w)
    \/ \E w \in Workers : HandlerRaise(w)
    \/ \E w \in Workers : DeleteEvent(w)
    \/ \E w \in Workers : DeleteExpired(w)

Spec == Init /\ [][Next]_vars

\* a worker's wake-up from wait_for, by trigger or by timeout
Wake(w) == WorkerTriggered(w) \/ WorkerTimeout(w)

\* the handler finishes, one way or the other
HandlerDone(w) == HandlerReturn(w) \/ HandlerRaise(w)

\* the event loop runs every task that can run, every timed wait ends, the
\* handler finishes, and the clock keeps advancing
Fairness ==
    /\ WF_vars(Tick)
    /\ WF_vars(OnEventAck)
    /\ WF_vars(OnEventTrigger)
    /\ \A w \in Workers :
          /\ WF_vars(InitialSleep(w))
          /\ WF_vars(Wake(w))
          /\ WF_vars(ClaimExecute(w))
          /\ WF_vars(ClaimReturn(w))
          /\ WF_vars(HandlerDone(w))
          /\ WF_vars(DeleteEvent(w))
          /\ WF_vars(DeleteExpired(w))

FairSpec == Spec /\ Fairness

\* ---- the worker pool with exact timers ----

\* a delivery at any time of the clock
OnEventInsertAnyTime == OnEventInsertBy(MaxTime)

\* variant of TimerPending: a wait_for never times out
TimerPendingForever(w) == pc[w] \in {"sleep", "wait"}

\* asyncio.sleep(initial_sleep_seconds), with initial_sleep_seconds below
\* worker_sleep_seconds, or wait_for(self._trigger.get(), timeout) has neither
\* timed out nor an item to return nor a shut-down queue to report
TimerPending(w) ==
    \/ pc[w] = "sleep" /\ now + 1 < worker_sleep_minutes
    \/ /\ pc[w] = "wait"
       /\ trigger = 0
       /\ ~is_shutdown
       /\ waited[w] < worker_sleep_minutes

\* the clock advances only when no sleep and no wait_for is due to return
TickTimed ==
    /\ \A w \in Workers : pc[w] \in {"sleep", "wait"} => TimerPending(w)
    /\ Tick

NextTimed ==
    \/ OnEventInsertAnyTime
    \/ OnEventAck
    \/ OnEventAckRaise
    \/ OnEventTrigger
    \/ TickTimed
    \/ \E w \in Workers : InitialSleep(w)
    \/ \E w \in Workers : WorkerTriggered(w)
    \/ \E w \in Workers : WorkerTimeout(w)
    \/ \E w \in Workers : ClaimExecute(w)
    \/ \E w \in Workers : ClaimReturn(w)
    \/ \E w \in Workers : HandlerReturn(w)
    \/ \E w \in Workers : HandlerRaise(w)
    \/ \E w \in Workers : DeleteEvent(w)
    \/ \E w \in Workers : DeleteExpired(w)

TimedSpec == Init /\ [][NextTimed]_vars

\* ---- ingress: on_message and handle_proactive_prompt ----

\* bot_info.user_id, and the user of a message that has none
bot_user_id == "UBOT"
NoUser == "nouser"
Users == {bot_user_id, NoUser, "U1"}

\* self._proactive_prompt_channels
proactive_prompt_channels == {"C_PROACTIVE"}
Channels == {"C_PROACTIVE", "C_OTHER"}

\* message deliveries: mentions_bot is the outcome of the search for <@bot> in
\* the text, thread_ts whether the message has a thread parent
Messages ==
    {m \in [kind : {"message"}, user : Users, channel_type : {"im", "channel"},
            channel : Channels, text : Texts, mentions_bot : BOOLEAN,
            thread_ts : BOOLEAN] :
        m.text = NoText => ~m.mentions_bot}

\* agent.insert_event_hist(payload): a history row with processed = true and
\* a fresh id, no live row
insert_event_hist(p) ==
    /\ event_hist' = event_hist \cup
          {[id |-> nextId, event_ts |-> p.ts, attempts |-> 0, vt |-> now,
            claimed |-> <<>>, event |-> p, processed |-> TRUE]}
    /\ nextId' = nextId + 1
    /\ payloads' = [payloads EXCEPT ![nextId] = p]

\* agent should ignore its own messages
IgnoresMessage(m) == m.user = bot_user_id \/ m.user = NoUser

\* variant of OffersPrompt: replies in a thread are offered a prompt too
OffersPromptInThreads(m) ==
    /\ m.channel \in proactive_prompt_channels
    /\ ~m.mentions_bot

\* the message passes the channel, mention and thread tests of on_message
OffersPrompt(m) ==
    /\ m.channel \in proactive_prompt_channels
    /\ ~m.mentions_bot
    /\ ~m.thread_ts

\* the two buttons of the ephemeral prompt, each with value f"{event_hist_id}"
Prompt(id) == [confirm |-> ToString(id), reject |-> ToString(id)]

\* on_message: ack, then ignore the message, hand it to _on_event (im), or
\* archive it and post the prompt
OnMessage ==
    /\ ingress = "idle"
    /\ \E m \in Messages :
          /\ delivery' = m
          /\ IF IgnoresMessage(m)
             THEN /\ log' = <<"ack">>
                  /\ ingress' = "idle"
                  /\ UNCHANGED <<nextId, event_hist, payloads, prompts>>
             ELSE IF m.channel_type = "im"
             THEN /\ log' = <<"ack">>
                  /\ ingress' = "im"
                  /\ UNCHANGED <<nextId, event_hist, payloads, prompts>>
             ELSE IF OffersPrompt(m)
             THEN /\ nextId <= MaxEvents
                  /\ insert_event_hist(Payload(now, m.text))
                  /\ prompts' = prompts \cup {Prompt(nextId)}
                  /\ log' = <<"ack", "insert_event_hist", "prompt">>
                  /\ ingress' = "idle"
             ELSE /\ log' = <<"ack">>
                  /\ ingress' = "idle"
                  /\ UNCHANGED <<nextId, event_hist, payloads, prompts>>
    /\ UNCHANGED <<startup, now, event, lock, trigger, workerv, claims, invocations,
                   returned, unserved, fetched>>

\* the values a button action may carry
NoValue == "novalue"
NotInt == -1
Values == {NoValue, "abc"} \cup {ToString(i) : i \in 1 .. (MaxEvents + 1)}

\* int(relevant_event_hist)
IntOf(v) ==
    IF \E i \in 0 .. (MaxEvents + 1) : ToString(i) = v
    THEN CHOOSE i \in 0 .. (MaxEvents + 1) : ToString(i) = v
    ELSE NotInt

CONFIRM_PROACTIVE_PROMPT == "confirm_proactive_prompt"
REJECT_PROACTIVE_PROMPT == "reject_proactive_prompt"
NoActionId == "noactionid"

\* button-action deliveries: the actions list is missing, has one action, or
\* has more than one
Bodies ==
    [kind : {"action"}, actions : {"missing", "one", "many"},
     action_id : {CONFIRM_PROACTIVE_PROMPT, REJECT_PROACTIVE_PROMPT, NoActionId},
     value : Values]

\* variant of get_event_hist: the row is read from agent.event
get_event_live(id) ==
    IF id \in DOMAIN event /\ ValidEvent(event[id]) THEN event[id] ELSE NoEvent

\* variant of get_event_hist: a row that does not validate is returned too
get_event_hist_unchecked(id) ==
    LET rows == {h \in event_hist : h.id = id}
    IN  IF rows = {} THEN NoEvent
        ELSE LET h == CHOOSE r \in rows : TRUE
             IN  [id |-> h.id, event_ts |-> h.event_ts,
                  attempts |-> h.attempts, vt |-> h.vt,
                  claimed |-> h.claimed, event |-> h.event]

\* get_event_hist(event_id): the history row as an Event, or None
get_event_hist(id) ==
    LET rows == {h \in event_hist : h.id = id}
    IN  IF rows = {} THEN NoEvent
        ELSE LET h == CHOOSE r \in rows : TRUE
             IN  IF ValidEvent(h)
                 THEN [id |-> h.id, event_ts |-> h.event_ts,
                       attempts |-> h.attempts, vt |-> h.vt,
                       claimed |-> h.claimed, event |-> h.event]
                 ELSE NoEvent

\* the payload tests of handle_proactive_prompt that end it before the lookup
Dropped(b) ==
    \/ b.actions # "one"
    \/ b.value = NoValue
    \/ IntOf(b.value) = NotInt

\* handle_proactive_prompt up to the call of the event processor
\* in _process_event(event_hist)
OnAction ==
    /\ ingress = "idle"
    /\ \E b \in Bodies :
          /\ delivery' = b
          /\ IF b.actions # "one"
             THEN /\ log' = <<"ack", "drop">>
                  /\ ingress' = "idle"
                  /\ UNCHANGED <<fetched, invocations>>
             ELSE IF b.action_id # CONFIRM_PROACTIVE_PROMPT
             THEN /\ log' = <<"ack", "respond_delete">>
                  /\ ingress' = "idle"
                  /\ UNCHANGED <<fetched, invocations>>
             ELSE IF Dropped(b)
             THEN /\ log' = <<"ack", "drop">>
                  /\ ingress' = "idle"
                  /\ UNCHANGED <<fetched, invocations>>
             ELSE LET found == get_event_hist(IntOf(b.value))
                  IN  /\ found # NoEvent =>
                            invocations[found.id] < MaxConfirms
                      /\ fetched' = found
                      /\ log' = <<"ack", "respond_replace", "handler">>
                      /\ ingress' = "confirm"
                      /\ invocations' =
                            IF found = NoEvent THEN invocations
                            ELSE [invocations EXCEPT ![found.id] = @ + 1]
    /\ UNCHANGED <<startup, now, nextId, queue, lock, trigger, workerv, claims,
                   returned, payloads, unserved, prompts>>

\* _process_event(event_hist): the event processor returns; with None for
\* the event, _delete_event and then the logging of its failure raise
\* AttributeError on event.id
ConfirmHandlerReturn ==
    /\ ingress = "confirm"
    /\ IF fetched = NoEvent
       THEN /\ log' = Append(log, "raise")
            /\ ingress' = "idle"
            /\ UNCHANGED returned
       ELSE /\ returned' = returned \cup {fetched.id}
            /\ ingress' = "confirm_delete"
            /\ UNCHANGED log
    /\ UNCHANGED <<startup, now, nextId, queue, lock, trigger, workerv, claims,
                   invocations, payloads, unserved, delivery, prompts,
                   fetched>>

\* variant of ConfirmHandlerRaise: the history row is marked for a retry
ConfirmHandlerRaiseUnprocessed ==
    /\ ingress = "confirm"
    /\ log' = Append(log, IF fetched = NoEvent THEN "raise" ELSE "logged")
    /\ ingress' = "idle"
    /\ event_hist' = {IF h.id = fetched.id THEN [h EXCEPT !.processed = FALSE]
                      ELSE h : h \in event_hist}
    /\ UNCHANGED <<startup, now, nextId, event, lock, trigger, workerv, ghost,
                   delivery, prompts, fetched>>

\* _process_event(event_hist): the event processor raises; the failure is
\* logged with event.id, which raises AttributeError when the event is None
ConfirmHandlerRaise ==
    /\ ingress = "confirm"
    /\ log' = Append(log, IF fetched = NoEvent THEN "raise" ELSE "logged")
    /\ ingress' = "idle"
    /\ UNCHANGED <<startup, now, nextId, queue, lock, trigger, workerv, ghost,
                   delivery, prompts, fetched>>

\* _process_event(event_hist): _delete_event(event) after the processor
\* returned
ConfirmDelete ==
    /\ ingress = "confirm_delete"
    /\ delete_event(event, DeleteEventArgs(fetched)[1],
                    DeleteEventArgs(fetched)[2])
    /\ log' = Append(log, "delete_event")
    /\ ingress' = "idle"
    /\ UNCHANGED <<startup, now, nextId, lock, trigger, workerv, ghost, delivery,
                   prompts, fetched>>

\* a slash command delivery: whether user_is_admin finds the user, and
\* whether handle_command returns its string or raises
Commands == [kind : {"command"}, admin : BOOLEAN, router_raises : BOOLEAN]

\* variant of OnCommand: the command also wakes a worker
OnCommandTriggers ==
    /\ ingress = "idle"
    /\ \E c \in Commands :
          /\ delivery' = c
          /\ log' = <<"ack", "handle_command", "respond">>
    /\ trigger' = trigger + 1
    /\ ingress' = "idle"
    /\ UNCHANGED <<startup, now, nextId, queue, lock, workerv, ghost,
                   prompts, fetched>>

\* on_command: SlackCommand(**command), ack, handle_command, respond with
\* the string it returned; handle_command reads agent.admin_users and its
\* handlers read and write agent.admin_users and agent.ignored_users only
OnCommand ==
    /\ ingress = "idle"
    /\ \E c \in Commands :
          /\ delivery' = c
          /\ log' = IF c.router_raises
                    THEN <<"ack", "handle_command", "raise">>
                    ELSE <<"ack", "handle_command", "respond">>
    /\ ingress' = "idle"
    /\ UNCHANGED <<startup, now, nextId, queue, lock, trigger, workerv, ghost,
                   prompts, fetched>>

\* the callbacks of the socket, one delivery at a time, no worker running
NextIngress ==
    \/ OnEventInsert
    \/ OnEventInsertRaise
    \/ OnEventAck
    \/ OnEventAckRaise
    \/ OnEventTrigger
    \/ OnMessage
    \/ OnAction
    \/ OnCommand
    \/ ConfirmHandlerReturn
    \/ ConfirmHandlerRaise
    \/ ConfirmDelete

IngressSpec == Init /\ [][NextIngress]_vars

\* ---- the proactive path while the workers run ----

ConfirmWorker == 0

\* mentions, messages and button actions, with one worker taking the live
\* rows
NextConfirm ==
    \/ OnEventInsert
    \/ OnEventAck
    \/ OnEventTrigger
    \/ OnMessage
    \/ OnAction
    \/ ConfirmHandlerReturn
    \/ ConfirmHandlerRaise
    \/ ConfirmDelete
    \/ WorkerTriggered(ConfirmWorker)
    \/ ClaimExecute(ConfirmWorker)
    \/ ClaimReturn(ConfirmWorker)
    \/ HandlerReturn(ConfirmWorker)
    \/ HandlerRaise(ConfirmWorker)
    \/ DeleteEvent(ConfirmWorker)
    \/ DeleteExpired(ConfirmWorker)

ConfirmSpec == Init /\ [][NextConfirm]_vars

\* ---- one worker's batches over a long queue ----

\* mentions delivered, one more than a batch takes
MaxBatchEvents == 21
BatchIds == 1 .. MaxBatchEvents

\* the worker whose cycles are followed; the others stay in their wait_for
BatchWorker == 0

\* an app_mention delivery that validates, made when the live table is empty
OnEventInsertBatch ==
    /\ ingress = "idle"
    /\ nextId <= MaxBatchEvents
    /\ event = <<>>
    /\ insert_event(Payload(now, "hi"))
    /\ delivery' = Mention("hi")
    /\ log' = <<"insert">>
    /\ unserved' = (nextId :> (\E w \in Workers : pc[w] = "wait")) @@ unserved
    /\ ingress' = "inserted"
    /\ UNCHANGED <<startup, now, event_hist, lock, trigger, workerv,
                   claims, invocations, returned, prompts, fetched>>

\* the pool has been idle for worker_sleep_minutes: every worker is in its
\* wait_for, about to time out
BatchInit ==
    /\ now = worker_sleep_minutes
    /\ nextId = 1
    /\ event = <<>>
    /\ event_hist = {}
    /\ lock = [w \in Workers |-> NoRow]
    /\ trigger = 0
    /\ ingress = "idle"
    /\ pc = [w \in Workers |-> "wait"]
    /\ cur = [w \in Workers |-> NoEvent]
    /\ iter = [w \in Workers |-> 0]
    /\ waited = [w \in Workers |-> worker_sleep_minutes]
    /\ claims = [i \in BatchIds |-> 0]
    /\ invocations = [i \in BatchIds |-> 0]
    /\ returned = {}
    /\ payloads = [i \in BatchIds |-> Payload(0, NoText)]
    /\ unserved = <<>>
    /\ delivery = NoDelivery
    /\ log = <<>>
    /\ prompts = {}
    /\ fetched = NoEvent
    /\ config = ModelConfig
    /\ outcome = Constructed(ModelConfig)
    /\ is_shutdown = FALSE
    /\ admin_users = InitialAdmins
    /\ ignored_users = {}

NextBatch ==
    \/ OnEventInsertBatch
    \/ OnEventAck
    \/ OnEventTrigger
    \/ WorkerTriggered(BatchWorker)
    \/ WorkerTimeout(BatchWorker)
    \/ ClaimExecute(BatchWorker)
    \/ ClaimReturn(BatchWorker)
    \/ HandlerReturn(BatchWorker)
    \/ HandlerRaise(BatchWorker)
    \/ DeleteEvent(BatchWorker)
    \/ DeleteExpired(BatchWorker)

BatchSpec == BatchInit /\ [][NextBatch]_vars

\* ---- the worker pool with a failing database ----

\* _claim_event raises inside _process_events (the pool gives no connection,
\* or the statement fails): neither except clause of the worker loop matches,
\* the exception leaves _worker and the task ends
ClaimRaise(w) ==
    /\ pc[w] = "claim"
    /\ pc' = [pc EXCEPT ![w] = "raised"]
    /\ iter' = [iter EXCEPT ![w] = 0]
    /\ UNCHANGED <<startup, now, nextId, queue, lock, trigger, inbound, cur,
                   waited, ghost>>

\* _delete_expired_events raises: as for _claim_event
SweepRaise(w) ==
    /\ pc[w] = "sweep"
    /\ pc' = [pc EXCEPT ![w] = "raised"]
    /\ UNCHANGED <<startup, now, nextId, queue, lock, trigger, inbound, cur,
                   iter, waited, ghost>>

\* asyncio.TaskGroup: once a task has ended with an exception the group
\* cancels every other task at the await it is in; an open claim transaction
\* is rolled back
TaskGroupCancel(w) ==
    /\ \E v \in Workers : pc[v] = "raised"
    /\ pc[w] \notin {"raised", "cancelled"}
    /\ pc' = [pc EXCEPT ![w] = "cancelled"]
    /\ lock' = [lock EXCEPT ![w] = NoRow]
    /\ cur' = [cur EXCEPT ![w] = NoEvent]
    /\ iter' = [iter EXCEPT ![w] = 0]
    /\ UNCHANGED <<startup, now, nextId, queue, trigger, inbound, waited,
                   ghost>>

NextFault ==
    \/ Next
    \/ \E w \in Workers : ClaimRaise(w)
    \/ \E w \in Workers : SweepRaise(w)
    \/ \E w \in Workers : TaskGroupCancel(w)

FaultSpec == Init /\ [][NextFault]_vars

\* ---- the worker pool with a failing delete_event ----

\* variant of DeleteEventRaise: the failure is logged and the batch goes on
DeleteEventRaiseContinues(w) ==
    /\ pc[w] = "delete"
    /\ cur[w].id \in DOMAIN event
    /\ pc' = [pc EXCEPT ![w] = "claim"]
    /\ cur' = [cur EXCEPT ![w] = NoEvent]
    /\ iter' = [iter EXCEPT ![w] = @ + 1]
    /\ UNCHANGED <<startup, now, nextId, queue, lock, trigger, inbound, waited,
                   ghost>>

\* _delete_event raises after the processor returned (no connection, or the
\* statement fails and its transaction is rolled back): the except clause of
\* _process_event logs, False is returned and _process_events returns
DeleteEventRaise(w) ==
    /\ pc[w] = "delete"
    /\ cur[w].id \in DOMAIN event
    /\ pc' = [pc EXCEPT ![w] = "sweep"]
    /\ cur' = [cur EXCEPT ![w] = NoEvent]
    /\ iter' = [iter EXCEPT ![w] = 0]
    /\ UNCHANGED <<startup, now, nextId, queue, lock, trigger, inbound, waited,
                   ghost>>

NextDeleteFault ==
    \/ Next
    \/ \E w \in Workers : DeleteEventRaise(w)

DeleteFaultSpec == Init /\ [][NextDeleteFault]_vars

\* ---- the worker pool when the trigger queue is shut down ----

\* self._trigger.shutdown(immediate): with immediate the queue is drained,
\* without it the items already queued stay; the call does not fall on the
\* instant at which a wait_for returns, with an item or by its timeout
TriggerShutdown ==
    /\ ~is_shutdown
    /\ ingress = "idle"
    /\ \A w \in Workers : pc[w] = "wait" => TimerPending(w)
    /\ is_shutdown' = TRUE
    /\ \E immediate \in BOOLEAN :
          trigger' = IF immediate THEN 0 ELSE trigger
    /\ UNCHANGED <<config, outcome, users, now, nextId, queue, lock, inbound,
                   workerv, ghost>>

\* variant of WorkerShutDown: QueueShutDown is handled like TimeoutError
WorkerShutDownRuns(w) ==
    /\ pc[w] = "wait"
    /\ is_shutdown
    /\ trigger = 0
    /\ pc' = [pc EXCEPT ![w] = "claim"]
    /\ waited' = [waited EXCEPT ![w] = 0]
    /\ UNCHANGED <<startup, now, nextId, queue, lock, trigger, inbound, cur,
                   iter, ghost>>

\* self._trigger.get() raises QueueShutDown, the queue being shut down and
\* empty: except QueueShutDown: return
WorkerShutDown(w) ==
    /\ pc[w] = "wait"
    /\ is_shutdown
    /\ trigger = 0
    /\ pc' = [pc EXCEPT ![w] = "done"]
    /\ waited' = [waited EXCEPT ![w] = 0]
    /\ UNCHANGED <<startup, now, nextId, queue, lock, trigger, inbound, cur,
                   iter, ghost>>

\* await self._trigger.put(True) raises QueueShutDown
OnEventTriggerShutDown ==
    /\ ingress = "acked"
    /\ is_shutdown
    /\ ingress' = "idle"
    /\ log' = Append(log, "raise")
    /\ UNCHANGED <<startup, now, nextId, queue, lock, trigger, workerv, ghost,
                   delivery, prompts, fetched>>

NextShutdown ==
    \/ OnEventInsertAnyTime
    \/ OnEventAck
    \/ OnEventTrigger
    \/ TickTimed
    \/ \E w \in Workers : InitialSleep(w)
    \/ \E w \in Workers : WorkerTriggered(w)
    \/ \E w \in Workers : WorkerTimeout(w)
    \/ \E w \in Workers : ClaimExecute(w)
    \/ \E w \in Workers : ClaimReturn(w)
    \/ \E w \in Workers : HandlerReturn(w)
    \/ \E w \in Workers : HandlerRaise(w)
    \/ \E w \in Workers : DeleteEvent(w)
    \/ \E w \in Workers : DeleteExpired(w)
    \/ TriggerShutdown
    \/ OnEventTriggerShutDown
    \/ \E w \in Workers : WorkerShutDown(w)

ShutdownSpec == Init /\ [][NextShutdown]_vars

\* ---- construction and pool start, in seconds ----

\* variant of SampleRange: the upper end is included
SampleRangeInclusive(c) == 1 .. c.worker_sleep_seconds

\* range(1, self._worker_sleep_seconds)
SampleRange(c) == 1 .. (c.worker_sleep_seconds - 1)

\* random.sample(population, k): the lists of k distinct elements
Samples(population, k) ==
    {s \in [1 .. k -> population] :
        \A i, j \in 1 .. k : i # j => s[i] # s[j]}

\* any arguments, nothing constructed yet
ConfigInit ==
    /\ now = 0
    /\ nextId = 1
    /\ event = <<>>
    /\ event_hist = {}
    /\ lock = [w \in Workers |-> NoRow]
    /\ trigger = 0
    /\ ingress = "idle"
    /\ pc = [w \in Workers |-> IF w = 0 THEN "wait" ELSE "sleep"]
    /\ cur = [w \in Workers |-> NoEvent]
    /\ iter = [w \in Workers |-> 0]
    /\ waited = [w \in Workers |-> 0]
    /\ claims = [i \in Ids |-> 0]
    /\ invocations = [i \in Ids |-> 0]
    /\ returned = {}
    /\ payloads = [i \in Ids |-> Payload(0, NoText)]
    /\ unserved = <<>>
    /\ delivery = NoDelivery
    /\ log = <<>>
    /\ prompts = {}
    /\ fetched = NoEvent
    /\ config \in Configs
    /\ outcome = NotConstructed
    /\ is_shutdown = FALSE
    /\ admin_users = InitialAdmins
    /\ ignored_users = {}

unconfigured ==
    <<now, nextId, queue, lock, trigger, inbound, workerv, ghost, config,
      is_shutdown, users>>

\* EventHarness(...) is called with the arguments in config
Construct ==
    /\ outcome.init = "none"
    /\ outcome' = Constructed(config)
    /\ UNCHANGED unconfigured

\* _calc_worker_sleep: random.randint includes both ends
CalcWorkerSleep ==
    /\ outcome.init = "ok"
    /\ \E jitter \in config.worker_min_jitter_seconds ..
                      config.worker_max_jitter_seconds :
          outcome' = [outcome EXCEPT
                         !.timeout = <<config.worker_sleep_seconds + jitter>>]
    /\ UNCHANGED unconfigured

\* _worker_args(num_workers) in run(): random.sample raises ValueError when
\* the range has fewer than num_workers - 1 values
WorkerArgs ==
    /\ outcome.init = "ok"
    /\ outcome.initial_sleeps = <<>>
    /\ ~outcome.sample_raised
    /\ LET k == config.num_workers - 1
           population == SampleRange(config)
       IN  IF k > Cardinality(population)
           THEN outcome' = [outcome EXCEPT !.sample_raised = TRUE]
           ELSE \E s \in Samples(population, k) :
                   outcome' = [outcome EXCEPT !.initial_sleeps = <<0>> \o s]
    /\ UNCHANGED unconfigured

\* a second passes since the worker tasks were created; no asyncio.sleep
\* that is due is still pending
PoolSecond ==
    /\ outcome.initial_sleeps # <<>>
    /\ outcome.clock < config.worker_sleep_seconds
    /\ \A i \in 1 .. Len(outcome.initial_sleeps) :
          i \notin outcome.started => outcome.initial_sleeps[i] > outcome.clock
    /\ outcome' = [outcome EXCEPT !.clock = @ + 1]
    /\ UNCHANGED unconfigured

\* _worker(i - 1, initial_sleeps[i]) reaches its loop: at once when its
\* initial sleep is 0, after asyncio.sleep(initial_sleep_seconds) otherwise
WorkerBegin(i) ==
    /\ i \in (1 .. Len(outcome.initial_sleeps)) \ outcome.started
    /\ outcome.initial_sleeps[i] > 0 =>
          outcome.clock >= outcome.initial_sleeps[i]
    /\ outcome' = [outcome EXCEPT !.started = @ \cup {i}]
    /\ UNCHANGED unconfigured

\* the first _claim_event of the worker, in its first cycle
WorkerFirstClaim(i) ==
    /\ i \in outcome.started
    /\ i \notin DOMAIN outcome.first_claim
    /\ outcome' = [outcome EXCEPT !.first_claim = (i :> outcome.clock) @@ @]
    /\ UNCHANGED unconfigured

NextConfig ==
    \/ Construct
    \/ CalcWorkerSleep
    \/ WorkerArgs
    \/ PoolSecond
    \/ \E i \in 1 .. MaxNumWorkers : WorkerBegin(i)
    \/ \E i \in 1 .. MaxNumWorkers : WorkerFirstClaim(i)

ConfigSpec == ConfigInit /\ [][NextConfig]_vars

\* ---- slash commands: handle_command ----

CommandUsers == {"UADMIN", "U1"}
NotAMention == "abc"

\* the text of a slash command, in the tokens _get_args splits it into; a
\* token <@U|name> is written as the user id U
CommandTexts ==
    {<<>>, <<"help">>, <<"users">>, <<"users", "admins">>}
    \cup {<<"users", g, c>> :
            g \in {"admins", "ignored"}, c \in {"add", "list", "remove"}}
    \cup {<<"users", g, c, a>> :
            g \in {"admins", "ignored"}, c \in {"add", "remove"},
            a \in CommandUsers \cup {NotAMention}}

SlashCommands == [kind : {"command"}, user_id : CommandUsers,
                  text : CommandTexts]

REFUSAL == "Slash commands can only be used by admins."
NoHandler == "none"

\* variant of user_is_admin: every user passes
user_is_admin_always(user_id) == TRUE

\* SELECT EXISTS(SELECT 1 FROM agent.admin_users WHERE user_id = %s)
user_is_admin(user_id) == user_id \in admin_users

\* parse_slack_user_name: the user id of a mention, nothing for another token
parse_slack_user_name(token) ==
    IF token \in CommandUsers THEN token ELSE NoUser

\* agent.insert_admin_user, agent.delete_admin_user, agent.insert_ignored_user
\* and agent.delete_ignored_user, for the user the command names
insert_admin_user(u) == admin_users \cup {u}
delete_admin_user(u) == admin_users \ {u}
insert_ignored_user(u) == ignored_users \cup {u}
delete_ignored_user(u) == ignored_users \ {u}

\* Command.expected_parameters in _build_command_handlers
expected_parameters(key) == IF key = "list" THEN 0 ELSE 1

\* what a call leaves behind: the handler function it called, the string it
\* returned and the two tables
Result(handler, response, admins, ignored) ==
    [handler |-> handler, response |-> response, admins |-> admins,
     ignored |-> ignored]

Unchanged(handler, response) ==
    Result(handler, response, admin_users, ignored_users)

\* the handler functions of the leaves of the command tree
Handle(group, key, args) ==
    LET name == <<group, key>>
        user == IF args = <<>> THEN NoUser ELSE parse_slack_user_name(args[1])
    IN  IF key = "list" THEN Unchanged(name, "list")
        ELSE IF user = NoUser
        THEN Unchanged(name, "Argument needs to be a Slack username")
        ELSE IF name = <<"admins", "add">>
        THEN Result(name, "done", insert_admin_user(user), ignored_users)
        ELSE IF name = <<"admins", "remove">>
        THEN Result(name, "done", delete_admin_user(user), ignored_users)
        ELSE IF name = <<"ignored", "add">>
        THEN Result(name, "done", admin_users, insert_ignored_user(user))
        ELSE Result(name, "done", admin_users, delete_ignored_user(user))

\* CommandGroup.__call__ and Command.__call__ over the tree of
\* _build_command_handlers: users / admins, ignored / add, list, remove
Route(text) ==
    IF Len(text) < 3 \/ text[1] # "users"
       \/ text[2] \notin {"admins", "ignored"}
       \/ text[3] \notin {"add", "list", "remove"}
    THEN Unchanged(NoHandler, "Available commands")
    ELSE IF Len(text) - 3 # expected_parameters(text[3])
    THEN Unchanged(NoHandler, "Incorrect number of parameters")
    ELSE Handle(text[2], text[3], SubSeq(text, 4, Len(text)))

handle_command(command) ==
    IF ~user_is_admin(command.user_id)
    THEN Unchanged(NoHandler, REFUSAL)
    ELSE Route(command.text)

\* on_command with the command tree: ack, handle_command, respond
SlashCommand ==
    /\ ingress = "idle"
    /\ \E c \in SlashCommands :
          LET r == handle_command(c)
          IN  /\ delivery' = c
              /\ log' = <<"ack", r.handler, r.response>>
              /\ admin_users' = r.admins
              /\ ignored_users' = r.ignored
    /\ UNCHANGED <<config, outcome, is_shutdown, now, nextId, queue, lock,
                   trigger, workerv, ghost, ingress, prompts, fetched>>

NextCommand == SlashCommand

CommandSpec == Init /\ [][NextCommand]_vars

\* ---- the legacy ingress: app/events.py ----

\* bound on the rows the legacy deliveries insert
MaxLegacyRows == 6

LegacyKinds == {"app_mention", "message"}

\* a delivery reaches its callback: event_handler is registered for
\* app_mention and acks before anything else, handle_message only acks
LegacyAck ==
    /\ ingress = "idle"
    /\ nextId + 1 <= MaxLegacyRows
    /\ \E kind \in LegacyKinds, text \in Texts :
          /\ delivery' = [kind |-> kind, text |-> text]
          /\ ingress' = IF kind = "app_mention" THEN "legacy_router"
                        ELSE "idle"
    /\ log' = <<"ack">>
    /\ UNCHANGED <<startup, now, nextId, queue, lock, trigger, workerv, ghost,
                   prompts, fetched>>

\* event_router, case app_mention: insert_event(pool, event)
LegacyRouterInsert ==
    /\ ingress = "legacy_router"
    /\ insert_event(Payload(now, delivery.text))
    /\ log' = Append(log, "insert")
    /\ ingress' = "legacy_put"
    /\ UNCHANGED <<startup, now, event_hist, lock, trigger, workerv, claims,
                   invocations, returned, unserved, delivery, prompts,
                   fetched>>

\* insert_event raises in event_router: the except clauses of event_handler
\* log it, the trigger is not sent
LegacyRouterRaise ==
    /\ ingress = "legacy_router"
    /\ log' = Append(log, "raise")
    /\ ingress' = "legacy_finally"
    /\ UNCHANGED <<startup, now, nextId, queue, lock, trigger, workerv, ghost,
                   delivery, prompts, fetched>>

\* event_router: await _agent_trigger.put(True)
LegacyPut ==
    /\ ingress = "legacy_put"
    /\ trigger' = trigger + 1
    /\ log' = Append(log, "trigger")
    /\ ingress' = "legacy_finally"
    /\ UNCHANGED <<startup, now, nextId, queue, lock, workerv, ghost, delivery,
                   prompts, fetched>>

\* event_handler, finally: await insert_event(pool, event)
LegacyFinallyInsert ==
    /\ ingress = "legacy_finally"
    /\ insert_event(Payload(now, delivery.text))
    /\ log' = Append(log, "insert")
    /\ ingress' = "idle"
    /\ UNCHANGED <<startup, now, event_hist, lock, trigger, workerv, claims,
                   invocations, returned, unserved, delivery, prompts,
                   fetched>>

\* insert_event raises in the finally clause and leaves event_handler
LegacyFinallyRaise ==
    /\ ingress = "legacy_finally"
    /\ log' = Append(log, "raise")
    /\ ingress' = "idle"
    /\ UNCHANGED <<startup, now, nextId, queue, lock, trigger, workerv, ghost,
                   delivery, prompts, fetched>>

NextLegacy ==
    \/ LegacyAck
    \/ LegacyRouterInsert
    \/ LegacyRouterRaise
    \/ LegacyPut
    \/ LegacyFinallyInsert
    \/ LegacyFinallyRaise

LegacySpec == Init /\ [][NextLegacy]_vars

\* ---- TigerAgent as the event processor of the run command ----

\* bound on the --max-attempts option
MaxRunAttempts == 4

\* TigerAgent.__init__: max_attempts keeps its default, run() does not pass it
agent_max_attempts == 3

TRY_AGAIN == "I experienced an issue trying to respond. I will try again."
GIVE_UP == " I give up. Sorry."

\* the text TigerAgent.__call__ posts in its except clause
FailureText(ev) ==
    IF ev.attempts < agent_max_attempts THEN TRY_AGAIN ELSE GIVE_UP

\* the options of the run command that reach EventHarness
RunOptions == [max_attempts : 1 .. MaxRunAttempts]

RunWorker == 0
RunMaxTime == MaxRunAttempts * invisibility_minutes

\* the mentions are in the live table, the worker is about to claim
RunInit ==
    /\ now = 0
    /\ nextId = MaxEvents + 1
    /\ event = [i \in Ids |->
                  [id |-> i, event_ts |-> 0, attempts |-> 0, vt |-> 0,
                   claimed |-> <<>>, event |-> Payload(0, "hi")]]
    /\ event_hist = {}
    /\ lock = [w \in Workers |-> NoRow]
    /\ trigger = 0
    /\ ingress = "idle"
    /\ pc = [w \in Workers |-> IF w = RunWorker THEN "claim" ELSE "sleep"]
    /\ cur = [w \in Workers |-> NoEvent]
    /\ iter = [w \in Workers |-> 0]
    /\ waited = [w \in Workers |-> 0]
    /\ claims = [i \in Ids |-> 0]
    /\ invocations = [i \in Ids |-> 0]
    /\ returned = {}
    /\ payloads = [i \in Ids |-> Payload(0, "hi")]
    /\ unserved = <<>>
    /\ delivery = NoDelivery
    /\ log = <<>>
    /\ prompts = {}
    /\ fetched = NoEvent
    /\ config \in RunOptions
    /\ outcome = NotConstructed
    /\ is_shutdown = FALSE
    /\ admin_users = InitialAdmins
    /\ ignored_users = {}

\* _claim_event with self._max_attempts, and the call of the processor
RunClaim ==
    /\ pc[RunWorker] = "claim"
    /\ LET rows == claim_event(RunWorker, config.max_attempts)
       IN  IF rows = {}
           THEN /\ pc' = [pc EXCEPT ![RunWorker] = "sweep"]
                /\ UNCHANGED <<event, cur, claims, invocations>>
           ELSE \E id \in rows :
                   LET row == claim_event_row(event[id], ClaimArgs[2])
                   IN  /\ event' = [event EXCEPT ![id] = row]
                       /\ cur' = [cur EXCEPT ![RunWorker] = row]
                       /\ claims' = [claims EXCEPT ![id] = @ + 1]
                       /\ invocations' = [invocations EXCEPT ![id] = @ + 1]
                       /\ pc' = [pc EXCEPT ![RunWorker] = "handler"]
    /\ UNCHANGED <<startup, now, nextId, event_hist, lock, trigger, inbound,
                   iter, waited, returned, payloads, unserved>>

\* TigerAgent.__call__ returns; _delete_event, then the next claim
RunAgentReturn ==
    /\ pc[RunWorker] = "handler"
    /\ delete_event(event, DeleteEventArgs(cur[RunWorker])[1],
                    DeleteEventArgs(cur[RunWorker])[2])
    /\ returned' = returned \cup {cur[RunWorker].id}
    /\ cur' = [cur EXCEPT ![RunWorker] = NoEvent]
    /\ pc' = [pc EXCEPT ![RunWorker] = "claim"]
    /\ UNCHANGED <<startup, now, nextId, lock, trigger, inbound, iter, waited,
                   claims, invocations, payloads, unserved>>

\* generate_response raises: TigerAgent.__call__ posts its failure text and
\* raises again; _process_event returns False and the batch ends
RunAgentRaise ==
    /\ pc[RunWorker] = "handler"
    /\ log' = Append(log, [id |-> cur[RunWorker].id,
                           attempts |-> cur[RunWorker].attempts,
                           text |-> FailureText(cur[RunWorker])])
    /\ cur' = [cur EXCEPT ![RunWorker] = NoEvent]
    /\ pc' = [pc EXCEPT ![RunWorker] = "sweep"]
    /\ UNCHANGED <<startup, now, nextId, queue, lock, trigger, ingress,
                   delivery, prompts, fetched, iter, waited, ghost>>

\* _delete_expired_events with self._max_attempts, then the wait
RunSweep ==
    /\ pc[RunWorker] = "sweep"
    /\ delete_expired_events(config.max_attempts, SweepArgs[2])
    /\ pc' = [pc EXCEPT ![RunWorker] = "wait"]
    /\ UNCHANGED <<startup, now, nextId, lock, trigger, inbound, cur, iter,
                   waited, ghost>>

\* the wait of the worker loop ends
RunWake ==
    /\ pc[RunWorker] = "wait"
    /\ pc' = [pc EXCEPT ![RunWorker] = "claim"]
    /\ UNCHANGED <<startup, now, nextId, queue, lock, trigger, inbound, cur,
                   iter, waited, ghost>>

\* a minute passes while the worker waits or the agent runs
RunTick ==
    /\ pc[RunWorker] \in {"wait", "handler"}
    /\ now < RunMaxTime
    /\ now' = now + 1
    /\ UNCHANGED <<startup, nextId, queue, lock, trigger, inbound, workerv,
                   ghost>>

NextRun ==
    \/ RunClaim
    \/ RunAgentReturn
    \/ RunAgentRaise
    \/ RunSweep
    \/ RunWake
    \/ RunTick

RunSpec == RunInit /\ [][NextRun]_vars

TypeOK ==
    /\ now \in 0 .. MaxTime
    /\ nextId \in 1 .. (MaxEvents + 1)
    /\ DOMAIN event \subseteq Ids
    /\ trigger \in 0 .. MaxEvents

\* ---- properties ----

Last(seq) == seq[Len(seq)]

\* a worker holds an id from the return of _claim_event to the end of
\* _process_event (handler finished and, on success, _delete_event done)
Holds(w) == pc[w] \in {"handler", "delete"}

\* C1: claim transactions that overlap never select the same row, a caller
\* gets the row with attempts one more than committed (1 for a fresh row), and
\* no two callers are handed the same claim (same id and attempt number)
C1_DistinctClaims ==
    \A w1, w2 \in Workers :
        /\ pc[w1] = "claimed" =>
              /\ lock[w1] = cur[w1].id
              /\ cur[w1].attempts = event[cur[w1].id].attempts + 1
        /\ w1 # w2 =>
              /\ lock[w1] # NoRow => lock[w1] # lock[w2]
              /\ (cur[w1].id # NoRow /\ cur[w1].id = cur[w2].id)
                    => cur[w1].attempts # cur[w2].attempts

\* two claim transactions are open at once, each with its own row
C1_Witness ==
    \E w1, w2 \in Workers :
        /\ w1 # w2
        /\ pc[w1] = "claimed" /\ pc[w2] = "claimed"
        /\ cur[w1].attempts = 1 /\ cur[w2].attempts = 1
        /\ lock[w1] # lock[w2]

\* C2 (as stated): at most one worker holds a given id in its claim-to-delete
\* interval
C2_SingleHolder ==
    \A w1, w2 \in Workers :
        (w1 # w2 /\ Holds(w1) /\ Holds(w2)) => cur[w1].id # cur[w2].id

\* C2 (amended): two workers hold the same id only when the later claim was
\* made after the lease of the earlier one had expired
C2_SingleHolderPerLease ==
    \A w1, w2 \in Workers :
        (/\ w1 # w2 /\ Holds(w1) /\ Holds(w2)
         /\ cur[w1].id = cur[w2].id
         /\ cur[w1].attempts <= cur[w2].attempts)
        => /\ cur[w1].attempts < cur[w2].attempts
           /\ cur[w1].vt <= Last(cur[w2].claimed)

\* two workers are inside the handler for the same id
C2_Witness ==
    \E w1, w2 \in Workers :
        /\ w1 # w2
        /\ pc[w1] = "handler" /\ pc[w2] = "handler"
        /\ cur[w1].id = cur[w2].id

\* C3: a history row has processed = true exactly when a handler invocation
\* for its id returned without raising
C3_ProcessedIffReturned ==
    \A h \in event_hist : h.processed <=> (h.id \in returned)

\* C4: every id that left the live table has exactly one history row, and no
\* id is both live and in history
C4_Conservation ==
    \A id \in Ids :
        LET n == Cardinality({h \in event_hist : h.id = id})
        IN  /\ id >= nextId => (n = 0 /\ id \notin DOMAIN event)
            /\ id < nextId => IF id \in DOMAIN event THEN n = 0 ELSE n = 1

\* a worker is about to call delete_event for a row that a sweep of another
\* worker has already moved to history
C4_Witness ==
    \E w \in Workers :
        /\ pc[w] = "delete"
        /\ \E h \in event_hist : h.id = cur[w].id /\ ~h.processed

\* C5: every inserted id eventually is in event_hist and no longer live
C5_EventuallyInHistory ==
    \A id \in Ids :
        (id \in DOMAIN event) ~> (id \in HistIds /\ id \notin DOMAIN event)

\* a row whose handler raised on every attempt has been retired
C5_Witness ==
    \E h \in event_hist :
        /\ ~h.processed
        /\ h.id \notin returned
        /\ invocations[h.id] = max_attempts

\* C6: an id is claimed, and its handler invoked, at most max_attempts times,
\* and a sweep retires every row that has used up its attempts with
\* processed = false
C6_BoundedAttempts ==
    /\ [](\A id \in Ids : /\ claims[id] <= max_attempts
                          /\ invocations[id] <= claims[id])
    /\ [][\A w \in Workers :
            (pc[w] = "sweep" /\ pc'[w] = "wait") =>
                \A id \in DOMAIN event :
                    event[id].attempts >= max_attempts =>
                        /\ id \notin DOMAIN event'
                        /\ HistRow(event[id], FALSE) \in event_hist']_vars

\* a row was retired because of its attempts, not because of its age
C6_Witness ==
    \E h \in event_hist :
        /\ ~h.processed
        /\ h.attempts = max_attempts
        /\ claims[h.id] = max_attempts
        /\ ~(h.event_ts < now - max_age_minutes)

\* C7: len(claimed) = attempts for every row; a live row changes only when a
\* claim commits, which adds one to attempts and appends the claim time
C7_MonotoneAttempts ==
    /\ [](/\ \A id \in DOMAIN event :
                Len(event[id].claimed) = event[id].attempts
          /\ \A h \in event_hist : Len(h.claimed) = h.attempts
          /\ \A w \in Workers :
                cur[w].id # NoRow => Len(cur[w].claimed) = cur[w].attempts)
    /\ [][\A id \in (DOMAIN event) \cap (DOMAIN event') :
            event'[id] # event[id] =>
                /\ \E w \in Workers : /\ pc[w] = "claimed" /\ lock[w] = id
                                      /\ event'[id] = cur[w]
                /\ event'[id].attempts = event[id].attempts + 1
                /\ event'[id].claimed = Append(event[id].claimed, now)
                /\ event'[id].event = event[id].event
                /\ event'[id].event_ts = event[id].event_ts]_vars

\* a live row has been claimed twice
C7_Witness ==
    \E id \in DOMAIN event :
        event[id].attempts = 2 /\ Len(event[id].claimed) = 2

\* C8: a claim selects only a row whose vt has passed and sets vt to the claim
\* time plus the lease, so successive claims of an id are at least one lease
\* apart
C8_LeaseSafety ==
    /\ [][\A w \in Workers :
            (pc[w] = "claim" /\ pc'[w] = "claimed") =>
                /\ event[cur'[w].id].vt <= now
                /\ cur'[w].vt = now + invisibility_minutes]_vars
    /\ [](\A id \in DOMAIN event :
            /\ event[id].attempts > 0 =>
                  event[id].vt = Last(event[id].claimed) + invisibility_minutes
            /\ \A i \in 1 .. (Len(event[id].claimed) - 1) :
                  event[id].claimed[i + 1]
                      >= event[id].claimed[i] + invisibility_minutes)

\* a row was claimed again after the holder of the first claim never completed
C8_Witness ==
    \E id \in DOMAIN event :
        /\ event[id].attempts = 2
        /\ id \notin returned
        /\ \E w \in Workers : pc[w] = "handler" /\ cur[w].id = id
                              /\ cur[w].attempts = 1

\* C9: when the handler raises, the queue is left as it is; a row is claimed
\* only once its lease has expired; and when the handler returns, the row is
\* in history after delete_event with processed = true and attempts equal to
\* the number of claims
C9_RaiseLeavesRow ==
    [][\A w \in Workers :
        /\ (pc[w] = "handler" /\ pc'[w] = "sweep") => UNCHANGED queue
        /\ (pc[w] = "claim" /\ pc'[w] = "claimed") =>
              event[cur'[w].id].vt <= now
        /\ (pc[w] = "delete" /\ pc'[w] # "delete") =>
              \E h \in event_hist' : /\ h.id = cur[w].id
                                     /\ h.processed
                                     /\ h.attempts = claims[h.id]]_vars

\* C10: insert_event(p); claim_event; delete_event(id, true) on an otherwise
\* empty queue leaves no live row and one history row with event = p,
\* processed = true and attempts = 1
C10_RoundTrip ==
    [][\A w \in Workers :
        (/\ pc[w] = "delete" /\ pc'[w] # "delete"
         /\ DOMAIN event = {cur[w].id}
         /\ event_hist = {}
         /\ nextId = cur[w].id + 1
         /\ claims[cur[w].id] = 1)
        => /\ event' = <<>>
           /\ Cardinality(event_hist') = 1
           /\ \A h \in event_hist' : /\ h.id = cur[w].id
                                     /\ h.event = payloads[h.id]
                                     /\ h.processed
                                     /\ h.attempts = 1]_vars

\* the single inserted event was claimed once and archived as processed
C10_Witness ==
    /\ nextId = 2
    /\ event = <<>>
    /\ claims[1] = 1
    /\ \E h \in event_hist : /\ event_hist = {h}
                             /\ h.event = payloads[1]
                             /\ h.processed
                             /\ h.attempts = 1

\* C11: a row whose payload does not validate is never handed to the handler,
\* is claimed at most once, and once its claim transaction has ended it is in
\* history with processed = false and attempts = 1 and no longer live
C11_PoisonDiscarded ==
    \A id \in 1 .. (nextId - 1) :
        payloads[id].text = NoText =>
            /\ invocations[id] = 0
            /\ claims[id] <= 1
            /\ \A w \in Workers : cur[w].id = id => pc[w] = "claimed"
            /\ (claims[id] = 1 /\ ~Locked(id)) =>
                  /\ id \notin DOMAIN event
                  /\ \E h \in event_hist : /\ h.id = id
                                           /\ ~h.processed
                                           /\ h.attempts = 1
                                           /\ h.event = payloads[id]

\* a poison row was claimed once and discarded
C11_Witness ==
    \E h \in event_hist :
        /\ h.event.text = NoText
        /\ claims[h.id] = 1
        /\ h.attempts = 1
        /\ ~h.processed

\* C12: one call of delete_expired_events by a worker moves to history, with
\* processed = false, exactly the live rows with attempts >= max_attempts or
\* event_ts < now - max_age, and changes no other live row and no history row
C12_SweepFrame ==
    [][\A w \in Workers :
        (pc[w] = "sweep" /\ pc'[w] = "wait") =>
            LET gone == {id \in DOMAIN event :
                            \/ event[id].attempts >= max_attempts
                            \/ event[id].event_ts < now - max_age_minutes}
            IN  /\ DOMAIN event' = (DOMAIN event) \ gone
                /\ \A id \in DOMAIN event' : event'[id] = event[id]
                /\ event_hist \subseteq event_hist'
                /\ event_hist' \ event_hist =
                       {HistRow(event[id], FALSE) : id \in gone}]_vars

\* a sweep has retired one row and left another, already claimed, row live
C12_Witness ==
    \E h \in event_hist :
        /\ ~h.processed
        /\ h.event.text # NoText
        /\ \E id \in DOMAIN event : event[id].attempts >= 1

\* C13: every call of delete_expired_events by a worker removes every live row
\* older than max_age, whatever its attempts and its lease, and a live row
\* older than max_age eventually is no longer live
C13_SweepLiveness ==
    /\ [][\A w \in Workers :
            (pc[w] = "sweep" /\ pc'[w] = "wait") =>
                \A id \in DOMAIN event :
                    event[id].event_ts < now - max_age_minutes =>
                        /\ id \notin DOMAIN event'
                        /\ HistRow(event[id], FALSE) \in event_hist']_vars
    /\ \A id \in Ids :
          (/\ id \in DOMAIN event
           /\ event[id].event_ts < now - max_age_minutes)
          ~> (id \notin DOMAIN event)

\* a row was retired by its age while attempts were left and its lease was
\* still running
C13_Witness ==
    \E h \in event_hist :
        /\ ~h.processed
        /\ h.attempts \in 1 .. (max_attempts - 1)
        /\ h.event_ts < now - max_age_minutes
        /\ h.vt > now

\* C14 (as stated): whatever the workers are doing when insert_event commits,
\* a worker running _process_events looks for a row to claim within
\* worker_sleep + max_jitter
C14_RunWithinBound ==
    \A id \in DOMAIN unserved : now - payloads[id].ts <= worker_sleep_minutes

\* C14 (amended): when some worker is in its wait_for at the time insert_event
\* commits, a worker running _process_events looks for a row to claim within
\* worker_sleep + max_jitter, also when no trigger is sent
C14_RunWithinBoundWhenWaiting ==
    \A id \in DOMAIN unserved :
        unserved[id] => now - payloads[id].ts <= worker_sleep_minutes

\* an event was inserted while a worker waited, no trigger followed, and the
\* full timeout has passed
C14_Witness ==
    \E id \in DOMAIN unserved :
        /\ unserved[id]
        /\ trigger = 0
        /\ ingress = "idle"
        /\ now - payloads[id].ts = worker_sleep_minutes

\* the number of times a callback has done x, and whether each y it did
\* came after an x
Count(seq, x) == Cardinality({i \in 1 .. Len(seq) : seq[i] = x})
Before(seq, x, y) ==
    \A j \in 1 .. Len(seq) : seq[j] = y => \E i \in 1 .. (j - 1) : seq[i] = x

\* C15 (as stated): for a mention, the ack comes only after the insert and the
\* trigger only after the ack, no trigger is sent when the insert failed, and
\* every inserted event gets exactly one trigger
C15_PersistAckTrigger ==
    /\ trigger <= Cardinality(DOMAIN event)
    /\ delivery.kind = "app_mention" =>
          /\ Before(log, "insert", "ack")
          /\ Before(log, "ack", "trigger")
          /\ Count(log, "trigger") <= 1
          /\ (ingress = "idle" /\ Count(log, "insert") = 1) =>
                Count(log, "trigger") = 1

\* C15 (amended): as above, but the one trigger is sent for every inserted
\* event whose ack returned; when the ack raises, none is sent
C15_PersistAckTriggerIfAcked ==
    /\ trigger <= Cardinality(DOMAIN event)
    /\ delivery.kind = "app_mention" =>
          /\ Before(log, "insert", "ack")
          /\ Before(log, "ack", "trigger")
          /\ Count(log, "trigger") <= 1
          /\ (ingress = "idle" /\ Count(log, "ack") = 1) =>
                Count(log, "trigger") = 1

\* a mention was persisted, acknowledged and triggered, in this order
C15_Witness ==
    /\ delivery.kind = "app_mention"
    /\ ingress = "idle"
    /\ log = <<"insert", "ack", "trigger">>
    /\ trigger = 1

\* C16: the callback of every delivery called ack before it ended
C16_AlwaysAcked ==
    (delivery.kind # "none" /\ ingress = "idle") =>
        Count(log, "ack") + Count(log, "ack_raise") >= 1

\* what the callback of a mention can have done when it ends
MentionLogs ==
    {<<"insert", "ack", "trigger">>, <<"insert", "ack_raise">>, <<"raise">>}

\* C17: a direct message from a user other than the bot goes through the same
\* steps in the same order as a mention, and a message of the bot or without
\* user inserts nothing
C17_DirectMessageAsMention ==
    (delivery.kind = "message" /\ ingress = "idle") =>
        IF IgnoresMessage(delivery)
        THEN Count(log, "insert") = 0 /\ Count(log, "trigger") = 0
        ELSE delivery.channel_type = "im" => log \in MentionLogs

\* C18 (as stated): a message that is not a direct message gets a history row
\* with processed = true and a prompt whose two buttons carry its id exactly
\* when its channel is configured, it has no thread parent, its author is not
\* the bot and its text does not mention the bot; it never adds a live row or
\* a trigger
C18_ProactivePrompt ==
    [][(/\ ingress = "idle"
        /\ delivery'.kind = "message"
        /\ delivery'.channel_type # "im") =>
        LET m == delivery'
            offered == /\ m.channel \in proactive_prompt_channels
                       /\ ~m.thread_ts
                       /\ m.user # bot_user_id
                       /\ ~m.mentions_bot
        IN  /\ event' = event
            /\ trigger' = trigger
            /\ ingress' = "idle"
            /\ IF offered
               THEN \E h \in event_hist' \ event_hist :
                       /\ event_hist' = event_hist \cup {h}
                       /\ h.processed
                       /\ h.event = Payload(now, m.text)
                       /\ prompts' \ prompts =
                             {[confirm |-> ToString(h.id),
                               reject |-> ToString(h.id)]}
               ELSE event_hist' = event_hist /\ prompts' = prompts]_vars

\* C18 (amended): the same, for a message that has an author, who is not the
\* bot; a message without user gets nothing
C18_ProactivePromptWithAuthor ==
    [][(/\ ingress = "idle"
        /\ delivery'.kind = "message"
        /\ delivery'.channel_type # "im") =>
        LET m == delivery'
            offered == /\ m.channel \in proactive_prompt_channels
                       /\ ~m.thread_ts
                       /\ m.user \notin {bot_user_id, NoUser}
                       /\ ~m.mentions_bot
        IN  /\ event' = event
            /\ trigger' = trigger
            /\ ingress' = "idle"
            /\ IF offered
               THEN \E h \in event_hist' \ event_hist :
                       /\ event_hist' = event_hist \cup {h}
                       /\ h.processed
                       /\ h.event = Payload(now, m.text)
                       /\ prompts' \ prompts =
                             {[confirm |-> ToString(h.id),
                               reject |-> ToString(h.id)]}
               ELSE event_hist' = event_hist /\ prompts' = prompts]_vars

\* a top-level message of a user in the configured channel was archived and
\* its prompt posted, next to a live row
C18_Witness ==
    /\ delivery.kind = "message"
    /\ log = <<"ack", "insert_event_hist", "prompt">>
    /\ DOMAIN event # {}
    /\ \E h \in event_hist : h.processed /\ Prompt(h.id) \in prompts

C20_MalformedDropped ==
    delivery.kind = "action" =>
        /\ Count(log, "raise") = 0
        /\ Count(log, "handler") > 0 =>
              /\ ~Dropped(delivery)
              /\ delivery.action_id = CONFIRM_PROACTIVE_PROMPT
              /\ fetched # NoEvent

\* C21: every cycle of a worker, started by a trigger or by a timeout,
\* begins with process_events, which calls claim_event at most 20 times, goes
\* on only after a handler that returned and stops at an empty claim or a
\* handler failure; the cycle then ends with delete_expired_events, invoked
\* once, and never ends otherwise
C21_CycleShape ==
    [][\A w \in Workers :
        pc'[w] # pc[w] =>
            /\ pc[w] = "wait" => pc'[w] = "claim" /\ iter[w] = 0
            /\ pc'[w] = "claim" => iter'[w] < 20
            /\ (pc[w] = "claim" /\ pc'[w] # "claimed") =>
                  /\ pc'[w] = "sweep"
                  /\ claim_event(w, max_attempts) = {}
            /\ pc[w] = "handler" => pc'[w] \in {"delete", "sweep"}
            /\ pc[w] = "delete" =>
                  pc'[w] = IF iter[w] + 1 < 20 THEN "claim" ELSE "sweep"
            /\ pc'[w] = "sweep" => pc[w] \in {"claim", "claimed", "handler",
                                               "delete"}
            /\ pc[w] = "sweep" =>
                  /\ pc'[w] = "wait"
                  /\ \A id \in DOMAIN event' :
                        ~Expired(event'[id], max_attempts, max_age_minutes)
            /\ pc'[w] = "wait" => pc[w] \in {"sleep", "sweep"}]_vars

\* a batch took its twentieth row while a twenty-first was waiting, and the
\* worker went on to the sweep
C21_Witness ==
    /\ pc[BatchWorker] = "sweep"
    /\ Cardinality(returned) = 20
    /\ DOMAIN event # {}
    /\ trigger > 0

\* C22: no worker task ends because a database call of its cycle raised, and
\* no other worker is stopped by it
C22_WorkerSurvives ==
    \A w \in Workers : pc[w] \notin {"raised", "cancelled"}

\* C23 (as stated): once the trigger queue is shut down, a worker that leaves
\* its wait_for exits; a worker exits only from its wait_for, with no event
\* in hand and no transaction open
C23_ExitAtNextReceive ==
    [][\A w \in Workers :
        /\ (is_shutdown /\ pc[w] = "wait" /\ pc'[w] # "wait") =>
              pc'[w] = "done"
        /\ (pc'[w] = "done" /\ pc[w] # "done") =>
              /\ pc[w] = "wait"
              /\ is_shutdown
              /\ cur[w] = NoEvent
              /\ lock[w] = NoRow]_vars

\* C23 (amended): once the trigger queue is shut down, a worker that leaves
\* its wait_for exits if the queue is empty, and otherwise takes one of the
\* items left in it and runs a cycle; a worker exits only from its wait_for,
\* with no event in hand and no transaction open
C23_ExitAtFirstEmptyReceive ==
    [][\A w \in Workers :
        /\ (is_shutdown /\ pc[w] = "wait" /\ pc'[w] # "wait") =>
              IF trigger = 0
              THEN pc'[w] = "done"
              ELSE pc'[w] = "claim" /\ trigger' = trigger - 1
        /\ (pc'[w] = "done" /\ pc[w] # "done") =>
              /\ pc[w] = "wait"
              /\ is_shutdown
              /\ trigger = 0
              /\ cur[w] = NoEvent
              /\ lock[w] = NoRow]_vars

\* the queue was shut down while a handler was running: that handler has
\* returned, its row is in history as processed, and every worker has exited
C23_Witness ==
    /\ is_shutdown
    /\ \A w \in Workers : pc[w] = "done"
    /\ \E h \in event_hist : h.processed /\ h.id \in returned

C25_PositiveTimeout ==
    outcome.init = "ok" =>
        /\ config.worker_sleep_seconds > 0
        /\ config.worker_min_jitter_seconds < config.worker_max_jitter_seconds
        /\ config.worker_sleep_seconds + config.worker_min_jitter_seconds > 0
        /\ \A i \in 1 .. Len(outcome.timeout) :
              /\ outcome.timeout[i] > 0
              /\ outcome.timeout[i] <=
                    config.worker_sleep_seconds
                        + config.worker_max_jitter_seconds

\* C30: the default pool is created, with maximum size the larger of
\* num_workers + 1 and PG_MAX_POOL_SIZE, so with room for num_workers + 1
\* connections
C30_PoolCapacity ==
    outcome.init # "none" =>
        /\ ~outcome.pool.raised
        /\ outcome.pool.max_size =
              IF config.num_workers + 1 > config.pg_max_pool_size
              THEN config.num_workers + 1
              ELSE config.pg_max_pool_size
        /\ outcome.pool.max_size >= config.num_workers + 1

\* C26: a slash command is acknowledged, then routed, then answered with
\* the router's string when the router returned; the callback changes neither
\* table, takes no id, claims nothing and sends no trigger
C26_CommandFrame ==
    [][delivery'.kind = "command" =>
        /\ event' = event
        /\ event_hist' = event_hist
        /\ nextId' = nextId
        /\ trigger' = trigger
        /\ claims' = claims
        /\ lock' = lock
        /\ ingress' = "idle"
        /\ log' = <<"ack", "handle_command",
                    IF delivery'.router_raises THEN "raise" ELSE "respond">>
      ]_vars

\* a slash command was answered while both tables held rows
C26_Witness ==
    /\ delivery.kind = "command"
    /\ log = <<"ack", "handle_command", "respond">>
    /\ DOMAIN event # {}
    /\ event_hist # {}

\* C27: the put of the trigger can always complete once the ack has
\* returned, whatever the number of triggers pending and whatever the workers
\* are doing
C27_TriggerNeverBlocks ==
    ingress = "acked" => ENABLED OnEventTrigger

\* a trigger was sent on top of a pending one while no worker was waiting on
\* the queue
C27_Witness ==
    /\ ingress = "idle"
    /\ log = <<"insert", "ack", "trigger">>
    /\ trigger = 2
    /\ \A w \in Workers : pc[w] # "wait"

\* C28: the row insert_event creates has attempts = 0, claimed empty, vt equal
\* to the time of the insert and event_ts taken from the payload, and for any
\* max_attempts >= 1 claim_event can select it as soon as the insert has
\* committed
C28_FreshRowEligible ==
    [][(nextId' = nextId + 1 /\ nextId \in DOMAIN event') =>
        LET row == event'[nextId]
        IN  /\ row.id = nextId
            /\ row.attempts = 0
            /\ row.claimed = <<>>
            /\ row.vt = now
            /\ row.event_ts = row.event.ts
            /\ \A maxAttempts \in 1 .. max_attempts, w \in Workers :
                  nextId \in claim_event(w, maxAttempts)']_vars

\* a row was claimed for the first time at the very time it was inserted
C28_Witness ==
    \E w \in Workers :
        /\ pc[w] = "handler"
        /\ cur[w].attempts = 1
        /\ cur[w].claimed = <<cur[w].event.ts>>
        /\ now = cur[w].event.ts

\* the step of on_message that calls insert_event_hist
InsertsHist == delivery'.kind = "message" /\ event_hist' # event_hist

Woken == {w \in Workers : pc[w] = "wait" /\ pc'[w] = "claim"}

\* the triggers _on_event puts on the queue in this step
Sent == IF ingress = "acked" /\ ingress' = "idle" THEN 1 ELSE 0

\* C31: each trigger starts the cycle of exactly one worker: a step wakes at
\* most one worker, a worker woken while a trigger is pending takes exactly
\* one trigger off the queue, and nothing else takes a trigger off, so a
\* trigger sent while no worker waits stays pending until a worker is back in
\* its wait and k triggers start at most k cycles
C31_OneWorkerPerTrigger ==
    [][/\ Cardinality(Woken) <= 1
       /\ trigger' = trigger + Sent
                       - (IF Woken # {} /\ trigger > 0 THEN 1 ELSE 0)
       /\ trigger' >= 0]_vars

\* a trigger was sent while one worker ran a handler and the other was in its
\* initial sleep; the worker that reached its wait first has taken it, before
\* any timeout could end, and is about to claim
C31_Witness ==
    \E w \in Workers, id \in DOMAIN unserved :
        /\ now = 0
        /\ pc[w] = "claim"
        /\ iter[w] = 0
        /\ trigger = 0
        /\ ~unserved[id]
        /\ id \in DOMAIN event
        /\ \A v \in Workers \ {w} : pc[v] = "handler"

\* C32: the failure text of TigerAgent is the retry text exactly when the
\* attempt that failed leaves the event claimable by the harness (attempts
\* below the max_attempts of the harness), and the final text exactly when it
\* was the last attempt the harness allows
C32_FailureTextMatchesRetries ==
    [][Len(log') = Len(log) + 1 =>
        LET said == Last(log')
        IN  /\ said.text = TRY_AGAIN <=> said.attempts < config.max_attempts
            /\ said.text = GIVE_UP <=> said.attempts >= config.max_attempts
      ]_vars

\* the worker leaves _delete_event in this step with the row still live
DeleteFailed(w) ==
    /\ pc[w] = "delete"
    /\ pc'[w] # "delete"
    /\ cur[w].id \in DOMAIN event'

PromptIds == {id \in Ids : Prompt(id) \in prompts}

\* the step in which the processor raises for a fetched history row
ConfirmFailed ==
    /\ ingress = "confirm"
    /\ ingress' = "idle"
    /\ fetched # NoEvent
    /\ Last(log') = "logged"

\* C34: when the handler raises on the confirm path the failure is logged and
\* nothing else happens: no table changes, no id is taken and no trigger is
\* sent, the event is not in the live table and its history row has
\* processed = true; and no worker ever claims an id given out by
\* insert_event_hist or invokes the handler for it
C34_ConfirmFailureNotRetried ==
    [][/\ ConfirmFailed =>
            /\ event' = event
            /\ event_hist' = event_hist
            /\ nextId' = nextId
            /\ trigger' = trigger
            /\ fetched.id \notin DOMAIN event'
            /\ \A h \in event_hist' : h.id = fetched.id => h.processed
       /\ \A id \in PromptIds' :
             /\ id \notin DOMAIN event'
             /\ claims'[id] = 0
             /\ \A w \in Workers : cur'[w].id # id]_vars

\* the handler raised on the confirm path, then a mention was delivered and
\* the worker has claimed it and called the handler, the failed event being
\* still in history as processed
C34_Witness ==
    \E w \in Workers, h \in event_hist :
        /\ fetched # NoEvent
        /\ h.id = fetched.id
        /\ h.processed
        /\ invocations[h.id] = 1
        /\ h.id \notin returned
        /\ pc[w] = "handler"
        /\ cur[w].id > h.id

\* C35: when _process_events returns out of a claim, that is before its
\* twentieth iteration and without a handler failure, no row of the live
\* table is left that claim_event would select (visible, attempts below
\* max_attempts, not locked by another claim), also when the claim discarded
\* a poison row
C35_BatchEndsOnEmptyOnly ==
    [][\A w \in Workers :
          (pc[w] \in {"claim", "claimed"} /\ pc'[w] = "sweep") =>
              claim_event(w, ClaimArgs[1])' = {}]_vars

\* C36: the sweep of one worker leaves in the live table every row another
\* worker holds: claimed, its handler invocation not yet returned, its lease
\* not yet run out
C36_SweepSparesHeldRows ==
    [][\A w \in Workers :
          (pc[w] = "sweep" /\ pc'[w] = "wait") =>
              \A v \in Workers \ {w} :
                  (/\ pc[v] = "handler"
                   /\ cur[v].id \in DOMAIN event
                   /\ event[cur[v].id].vt > now) =>
                      cur[v].id \in DOMAIN event']_vars

\* C37: for every configuration __init__ accepts, with a timeout that is
\* positive for every jitter, _worker_args returns without raising, and the list it returns has one entry for each of the
\* worker ids 0 .. num_workers - 1 (entry i is the worker with id i - 1)
C37_PoolStarts ==
    (/\ outcome.init = "ok"
     /\ config.worker_sleep_seconds + config.worker_min_jitter_seconds > 0) =>
        /\ ~outcome.sample_raised
        /\ outcome.initial_sleeps # <<>> =>
              DOMAIN outcome.initial_sleeps = 1 .. config.num_workers
        /\ outcome.started \subseteq 1 .. config.num_workers

\* C38: a slash command of a user who is not in agent.admin_users calls no
\* command handler, leaves agent.admin_users and agent.ignored_users as they
\* are and is answered with the refusal text; a handler is called only for a
\* user who is in agent.admin_users
C38_AdminsOnly ==
    [][delivery'.kind = "command" =>
        /\ delivery'.user_id \notin admin_users =>
              /\ log' = <<"ack", NoHandler, REFUSAL>>
              /\ admin_users' = admin_users
              /\ ignored_users' = ignored_users
        /\ log'[2] # NoHandler => delivery'.user_id \in admin_users
        /\ <<admin_users', ignored_users'>> # <<admin_users, ignored_users>>
              => delivery'.user_id \in admin_users]_vars

\* a user who is not an admin asked to be made one and was refused, while
\* the admin table has a row and an earlier command of an admin has changed
\* the table of ignored users
C38_Witness ==
    /\ delivery.kind = "command"
    /\ delivery.user_id \notin admin_users
    /\ delivery.text = <<"users", "admins", "add", delivery.user_id>>
    /\ log = <<"ack", NoHandler, REFUSAL>>
    /\ admin_users # {}
    /\ ignored_users # {}

\* C39: in the legacy ingress a delivered app_mention has, when its callback
\* ends, inserted exactly one live row and sent exactly one trigger (at most
\* one of each when an insert raised), and a delivery of another type inserts
\* no row and sends no trigger
C39_LegacyOneRowOneTrigger ==
    [][/\ (ingress = "legacy_finally" /\ ingress' = "idle") =>
            /\ Count(log', "insert") <= 1
            /\ Count(log', "trigger") <= 1
            /\ Count(log', "raise") = 0 =>
                  /\ Count(log', "insert") = 1
                  /\ Count(log', "trigger") = 1
       /\ (ingress = "idle" /\ delivery'.kind # "app_mention") =>
            /\ event' = event
            /\ trigger' = trigger
            /\ ingress' = "idle"]_vars

====
